---- MODULE Spec2Model ----
(***************************************************************************)
(* A model of the behold crate (src/src/lib.rs): the Behold handle, the    *)
(* process-wide BEHOLD instance with its Arc<Mutex<BTreeMap<String,bool>>> *)
(* context, and the operations new, set_context, tag, when, when_context   *)
(* and show, called by several host threads.                               *)
(*                                                                         *)
(* Option<T> values are sequences of length at most one: <<>> is None and  *)
(* <<x>> is Some(x).  A BTreeMap<String, bool> is a function whose domain  *)
(* is the set of keys present.                                             *)
(***************************************************************************)
EXTENDS Integers, Sequences, FiniteSets, TLC

\* ---------------------------------------------------------------- bounds
\* The host threads that call into the library.
Threads == {"t1", "t2"}
\* The keys, tags and messages the host passes.
Keys == {"do-it", "other"}
Tags == {"apples"}
Msgs == {"Hello world!"}
\* The number of lines standard output is followed for.
MaxOut == 1

NoThread == "none"

VARIABLES
    BEHOLD,     \* the lazy static: <<>> before its first use, <<b>> after
    contexts,   \* the heap of Mutex<BTreeMap<String, bool>> allocations
    insts,      \* the Behold values the host holds
    out,        \* the lines printed to standard output
    pc,         \* per thread: where it is in the call it is running
    frame,      \* per thread: the arguments and locals of that call
    written     \* history: per key, the value of the last set_context that returned

vars == <<BEHOLD, contexts, insts, out, pc, frame, written>>

\* ------------------------------------------------------------ Option<T>
None == <<>>
Some(x) == <<x>>

\* Mutant: an absent value read as true.
unwrap_or_true(o) == IF o = None THEN TRUE ELSE o[1]

\* Option::unwrap_or_default for Option<bool>: bool::default() is false.
unwrap_or_default(o) == IF o = None THEN FALSE ELSE o[1]

\* ------------------------------------------------- BTreeMap<String,bool>
\* BTreeMap::new
BTreeMap_new == [k \in {} |-> FALSE]

\* Mutant: inserting false removes the key instead of storing false.
BTreeMap_insert_unset(m, key, value) ==
    [k \in (IF value THEN (DOMAIN m) \cup {key} ELSE (DOMAIN m) \ {key}) |->
        IF k = key THEN value ELSE m[k]]

\* Mutant: an insert that drops every other key.
BTreeMap_insert_only(m, key, value) == [k \in {key} |-> value]

\* Mutant: an insert that keeps the value of a key already present.
BTreeMap_insert_keep(m, key, value) ==
    [k \in (DOMAIN m) \cup {key} |-> IF k \in DOMAIN m THEN m[k] ELSE value]

\* BTreeMap::insert: the key is added, or its value replaced.
BTreeMap_insert(m, key, value) ==
    [k \in (DOMAIN m) \cup {key} |-> IF k = key THEN value ELSE m[k]]

\* BTreeMap::get(..).cloned(): Some(value) when the key is present.
BTreeMap_get(m, key) == IF key \in DOMAIN m THEN Some(m[key]) ELSE None

\* ------------------------------------------------------ Mutex<BTreeMap>
\* Mutex::new: unlocked, not poisoned.
Mutex_new(data) == [data |-> data, owner |-> NoThread, poisoned |-> FALSE]

\* Arc::new(Mutex::new(BTreeMap::new())): a new allocation on the heap; the
\* Arc is its index.
Arc_new(heap, mutex) == Append(heap, mutex)

\* -------------------------------------------------------------- Behold
\* struct Behold { context, speak_up, tag }
Behold(context, speak_up, tg) ==
    [context |-> context, speak_up |-> speak_up, tag |-> tg]

\* Mutant: a default instance that does not speak up.
BEHOLD_init_silent(context) == Behold(context, FALSE, None)

\* The initializer of the lazy static BEHOLD, given the Arc it allocates.
BEHOLD_init(context) == Behold(context, TRUE, None)

\* Mutant: the new tag is appended to the tag the receiver has.
tag_result_append(self, tg) ==
    Behold(self.context, self.speak_up,
           IF self.tag = None THEN Some(tg) ELSE Some(self.tag[1] \o tg))

\* The value tag returns: the context shared, speak_up kept, the tag set.
tag_result(self, tg) == Behold(self.context, self.speak_up, Some(tg))

\* The value when returns: the context shared, the tag kept, speak_up set.
when_result(self, speak_up) == Behold(self.context, speak_up, self.tag)

\* Mutant: the looked-up value is conjoined with the receiver's speak_up.
when_context_result_conjoin(self, speak_up) ==
    Behold(self.context, self.speak_up /\ speak_up, self.tag)

\* The value when_context returns, given the speak_up it looked up.
when_context_result(self, speak_up) == Behold(self.context, speak_up, self.tag)

\* Mutant: the lookup answers for the whole map instead of the one key.
when_context_lookup_any(m, key) == \E k \in DOMAIN m : m[k]

\* The lookup of when_context under the lock.
when_context_lookup(m, key) == unwrap_or_default(BTreeMap_get(m, key))

\* Mutant: the tag appended without the separating comma.
show_lines_no_comma(self, msg) ==
    IF self.speak_up
    THEN IF self.tag # None
         THEN << msg \o " " \o self.tag[1] >>
         ELSE << msg >>
    ELSE << >>

\* Mutant: speak_up is not consulted.
show_lines_always(self, msg) ==
    IF self.tag # None
    THEN << msg \o ", " \o self.tag[1] >>
    ELSE << msg >>

\* The lines show prints: println!("{}, {}", msg, tag), println!("{}", msg),
\* or nothing.
show_lines(self, msg) ==
    IF self.speak_up
    THEN IF self.tag # None
         THEN << msg \o ", " \o self.tag[1] >>
         ELSE << msg >>
    ELSE << >>

\* ---------------------------------------------------------------- Init
Idle == [op |-> "idle"]

Init ==
    /\ BEHOLD = None
    /\ contexts = << >>
    /\ insts = {}
    /\ out = << >>
    /\ pc = [t \in Threads |-> "idle"]
    /\ frame = [t \in Threads |-> Idle]
    /\ written = [k \in Keys |-> None]

\* ------------------------------------------------------- Behold::new
\* BEHOLD.clone(): the first use of the lazy static runs its initializer
\* once (allocating the one context); every use clones the value.
new(t) ==
    /\ pc[t] = "idle"
    /\ IF BEHOLD = None
       THEN /\ contexts' = Arc_new(contexts, Mutex_new(BTreeMap_new))
            /\ BEHOLD' = Some(BEHOLD_init(Len(contexts')))
       ELSE UNCHANGED <<BEHOLD, contexts>>
    /\ insts' = insts \cup {BEHOLD'[1]}
    /\ UNCHANGED <<out, pc, frame, written>>

\* ----------------------------------------------- Behold::set_context
\* The call: self, key and value are bound; the thread goes on to lock().
set_context(t, self, key, value) ==
    /\ pc[t] = "idle"
    /\ self \in insts
    /\ pc' = [pc EXCEPT ![t] = "set_lock"]
    /\ frame' = [frame EXCEPT ![t] =
            [op |-> "set_context", context |-> self.context,
             key |-> key, value |-> value]]
    /\ UNCHANGED <<BEHOLD, contexts, insts, out, written>>

\* (*self.context).lock(): blocks while another thread owns the mutex; on a
\* poisoned mutex it returns Err, the else branch panics and the unwinding
\* drops the guard the error carries.
set_context_lock(t) ==
    /\ pc[t] = "set_lock"
    /\ LET c == frame[t].context IN
       /\ contexts[c].owner = NoThread
       /\ IF contexts[c].poisoned
          THEN /\ pc' = [pc EXCEPT ![t] = "panicked"]
               /\ UNCHANGED contexts
          ELSE /\ pc' = [pc EXCEPT ![t] = "set_insert"]
               /\ contexts' = [contexts EXCEPT ![c].owner = t]
    /\ UNCHANGED <<BEHOLD, insts, out, frame, written>>

\* Mutant: overwriting a key is treated as an error: the thread panics
\* inside the critical section, which poisons the mutex as the guard drops.
set_context_insert_panic_on_overwrite(t) ==
    /\ pc[t] = "set_insert"
    /\ LET c == frame[t].context IN
       IF frame[t].key \in DOMAIN contexts[c].data
       THEN /\ contexts' = [contexts EXCEPT ![c].poisoned = TRUE,
                                            ![c].owner = NoThread]
            /\ pc' = [pc EXCEPT ![t] = "panicked"]
            /\ UNCHANGED <<frame, written>>
       ELSE /\ contexts' = [contexts EXCEPT
                    ![c].data = BTreeMap_insert(@, frame[t].key, frame[t].value),
                    ![c].owner = NoThread]
            /\ written' = [written EXCEPT ![frame[t].key] = Some(frame[t].value)]
            /\ pc' = [pc EXCEPT ![t] = "idle"]
            /\ frame' = [frame EXCEPT ![t] = Idle]
    /\ UNCHANGED <<BEHOLD, insts, out>>

\* Mutant: the guard is leaked (mem::forget), so the insert never unlocks.
set_context_insert_leak_guard(t) ==
    /\ pc[t] = "set_insert"
    /\ LET c == frame[t].context IN
       contexts' = [contexts EXCEPT
            ![c].data = BTreeMap_insert(@, frame[t].key, frame[t].value)]
    /\ written' = [written EXCEPT ![frame[t].key] = Some(frame[t].value)]
    /\ pc' = [pc EXCEPT ![t] = "idle"]
    /\ frame' = [frame EXCEPT ![t] = Idle]
    /\ UNCHANGED <<BEHOLD, insts, out>>

\* (*context).insert(key, value); the guard is dropped at the end of the
\* if-let block and the call returns.
set_context_insert(t) ==
    /\ pc[t] = "set_insert"
    /\ LET c == frame[t].context IN
       contexts' = [contexts EXCEPT
            ![c].data = BTreeMap_insert(@, frame[t].key, frame[t].value),
            ![c].owner = NoThread]
    /\ written' = [written EXCEPT ![frame[t].key] = Some(frame[t].value)]
    /\ pc' = [pc EXCEPT ![t] = "idle"]
    /\ frame' = [frame EXCEPT ![t] = Idle]
    /\ UNCHANGED <<BEHOLD, insts, out>>

\* ------------------------------------------------------- Behold::tag
\* Mutant: the tag is set on the receiver itself.
tag_in_place(t, self, tg) ==
    /\ pc[t] = "idle"
    /\ self \in insts
    /\ insts' = (insts \ {self}) \cup {tag_result(self, tg)}
    /\ UNCHANGED <<BEHOLD, contexts, out, pc, frame, written>>

\* Mutant: the map is copied into a new allocation instead of the Arc
\* being cloned.
tag_deep_copy(t, self, tg) ==
    /\ pc[t] = "idle"
    /\ self \in insts
    /\ contexts' = Arc_new(contexts, Mutex_new(contexts[self.context].data))
    /\ insts' = insts \cup {Behold(Len(contexts'), self.speak_up, Some(tg))}
    /\ UNCHANGED <<BEHOLD, out, pc, frame, written>>

tag(t, self, tg) ==
    /\ pc[t] = "idle"
    /\ self \in insts
    /\ insts' = insts \cup {tag_result(self, tg)}
    /\ UNCHANGED <<BEHOLD, contexts, out, pc, frame, written>>

\* ------------------------------------------------------ Behold::when
when(t, self, speak_up) ==
    /\ pc[t] = "idle"
    /\ self \in insts
    /\ insts' = insts \cup {when_result(self, speak_up)}
    /\ UNCHANGED <<BEHOLD, contexts, out, pc, frame, written>>

\* ---------------------------------------------- Behold::when_context
when_context(t, self, key) ==
    /\ pc[t] = "idle"
    /\ self \in insts
    /\ pc' = [pc EXCEPT ![t] = "wc_lock"]
    /\ frame' = [frame EXCEPT ![t] =
            [op |-> "when_context", self |-> self, key |-> key]]
    /\ UNCHANGED <<BEHOLD, contexts, insts, out, written>>

\* Mutant: a poisoned lock is recovered with into_inner instead of panicking.
when_context_lock_recover(t) ==
    /\ pc[t] = "wc_lock"
    /\ LET c == frame[t].self.context IN
       /\ contexts[c].owner = NoThread
       /\ pc' = [pc EXCEPT ![t] = "wc_get"]
       /\ contexts' = [contexts EXCEPT ![c].owner = t]
    /\ UNCHANGED <<BEHOLD, insts, out, frame, written>>

\* (*self.context).lock() as the scrutinee of the match: as in set_context.
when_context_lock(t) ==
    /\ pc[t] = "wc_lock"
    /\ LET c == frame[t].self.context IN
       /\ contexts[c].owner = NoThread
       /\ IF contexts[c].poisoned
          THEN /\ pc' = [pc EXCEPT ![t] = "panicked"]
               /\ UNCHANGED contexts
          ELSE /\ pc' = [pc EXCEPT ![t] = "wc_get"]
               /\ contexts' = [contexts EXCEPT ![c].owner = t]
    /\ UNCHANGED <<BEHOLD, insts, out, frame, written>>

\* Mutant: the lookup goes through entry(key).or_insert(false), so reading
\* an absent key stores it.
when_context_get_or_insert(t) ==
    /\ pc[t] = "wc_get"
    /\ LET c == frame[t].self.context
           m == contexts[c].data
           k == frame[t].key
       IN /\ frame' = [frame EXCEPT ![t] =
                  [op |-> "when_context", self |-> frame[t].self, key |-> k,
                   speak_up |-> when_context_lookup(m, k)]]
          /\ contexts' = [contexts EXCEPT
                  ![c].data = IF k \in DOMAIN m THEN m ELSE BTreeMap_insert(m, k, FALSE),
                  ![c].owner = NoThread]
    /\ pc' = [pc EXCEPT ![t] = "wc_build"]
    /\ UNCHANGED <<BEHOLD, insts, out, written>>

\* Mutant: the guard outlives the match, so the lock is still held while
\* the result is built and after the call returns.
when_context_get_keep_guard(t) ==
    /\ pc[t] = "wc_get"
    /\ LET c == frame[t].self.context IN
       frame' = [frame EXCEPT ![t] =
               [op |-> "when_context", self |-> frame[t].self,
                key |-> frame[t].key,
                speak_up |-> when_context_lookup(contexts[c].data, frame[t].key)]]
    /\ pc' = [pc EXCEPT ![t] = "wc_build"]
    /\ UNCHANGED <<BEHOLD, contexts, insts, out, written>>

\* The Ok arm: the lookup; the guard is dropped at the end of the match,
\* before the result is built.
when_context_get(t) ==
    /\ pc[t] = "wc_get"
    /\ LET c == frame[t].self.context IN
       /\ frame' = [frame EXCEPT ![t] =
               [op |-> "when_context", self |-> frame[t].self,
                key |-> frame[t].key,
                speak_up |-> when_context_lookup(contexts[c].data, frame[t].key)]]
       /\ contexts' = [contexts EXCEPT ![c].owner = NoThread]
    /\ pc' = [pc EXCEPT ![t] = "wc_build"]
    /\ UNCHANGED <<BEHOLD, insts, out, written>>

\* Mutant: the result takes the value the map holds when it is built, not
\* the one looked up under the lock.
when_context_build_reread(t) ==
    /\ pc[t] = "wc_build"
    /\ insts' = insts \cup
        {when_context_result(frame[t].self,
            when_context_lookup(contexts[frame[t].self.context].data, frame[t].key))}
    /\ pc' = [pc EXCEPT ![t] = "idle"]
    /\ frame' = [frame EXCEPT ![t] = Idle]
    /\ UNCHANGED <<BEHOLD, contexts, out, written>>

\* Behold { context, speak_up, tag }: the result is built and returned.
when_context_build(t) ==
    /\ pc[t] = "wc_build"
    /\ insts' = insts \cup {when_context_result(frame[t].self, frame[t].speak_up)}
    /\ pc' = [pc EXCEPT ![t] = "idle"]
    /\ frame' = [frame EXCEPT ![t] = Idle]
    /\ UNCHANGED <<BEHOLD, contexts, out, written>>

\* ------------------------------------------------------ Behold::show
\* The call: self and msg are bound.
show(t, self, msg) ==
    /\ pc[t] = "idle"
    /\ self \in insts
    /\ Len(out) + Len(show_lines(self, msg)) <= MaxOut
    /\ pc' = [pc EXCEPT ![t] = "show"]
    /\ frame' = [frame EXCEPT ![t] = [op |-> "show", self |-> self, msg |-> msg]]
    /\ UNCHANGED <<BEHOLD, contexts, insts, out, written>>

\* The body: println! writes its line, if any, and the call returns.
show_print(t) ==
    /\ pc[t] = "show"
    /\ out' = out \o show_lines(frame[t].self, frame[t].msg)
    /\ pc' = [pc EXCEPT ![t] = "idle"]
    /\ frame' = [frame EXCEPT ![t] = Idle]
    /\ UNCHANGED <<BEHOLD, contexts, insts, written>>

\* ---------------------------------------------------------------- Next
Next ==
    \E t \in Threads :
        \/ new(t)
        \/ \E self \in insts, key \in Keys, value \in BOOLEAN :
                set_context(t, self, key, value)
        \/ set_context_lock(t)
        \/ set_context_insert(t)
        \/ \E self \in insts, tg \in Tags : tag(t, self, tg)
        \/ \E self \in insts, speak_up \in BOOLEAN : when(t, self, speak_up)
        \/ \E self \in insts, key \in Keys : when_context(t, self, key)
        \/ when_context_lock(t)
        \/ when_context_get(t)
        \/ when_context_build(t)
        \/ \E self \in insts, msg \in Msgs : show(t, self, msg)
        \/ show_print(t)

Spec == Init /\ [][Next]_vars

\* ------------------------------------------------- concurrent writers
\* The host program of the concurrent-writers scenario: the main thread has
\* called behold() once; then every thread calls set_context once, each with
\* a key of its own and any value, and once all these calls have returned
\* the threads read the keys back with when_context.
KeyOf(t) == IF t = "t1" THEN "do-it" ELSE "other"

AllWritten == \A k \in Keys : written[k] # None

InitWriters ==
    /\ contexts = Arc_new(<< >>, Mutex_new(BTreeMap_new))
    /\ BEHOLD = Some(BEHOLD_init(Len(contexts)))
    /\ insts = {BEHOLD[1]}
    /\ out = << >>
    /\ pc = [t \in Threads |-> "idle"]
    /\ frame = [t \in Threads |-> Idle]
    /\ written = [k \in Keys |-> None]

Writer(t) ==
    \/ /\ written[KeyOf(t)] = None
       /\ \E self \in insts, value \in BOOLEAN :
            set_context(t, self, KeyOf(t), value)
    \/ set_context_lock(t)
    \/ set_context_insert(t)

Reader(t) ==
    \/ /\ AllWritten
       /\ \E self \in insts, key \in Keys : when_context(t, self, key)
    \/ when_context_lock(t)
    \/ when_context_get(t)
    \/ when_context_build(t)

NextWriters == \E t \in Threads : Writer(t) \/ Reader(t)

\* Every thread that can take a step is eventually scheduled.
WritersSpec ==
    /\ InitWriters
    /\ [][NextWriters]_vars
    /\ \A t \in Threads : WF_vars(Writer(t))

\* ---------------------------------------------------- fair scheduling
\* The threads calling set_context and when_context, in any number and
\* order, after the main thread has called behold() once.
NextCallers ==
    \E t \in Threads :
        \/ \E self \in insts, key \in Keys, value \in BOOLEAN :
                set_context(t, self, key, value)
        \/ set_context_lock(t)
        \/ set_context_insert(t)
        \/ \E self \in insts, key \in Keys : when_context(t, self, key)
        \/ when_context_lock(t)
        \/ when_context_get(t)
        \/ when_context_build(t)

\* Fair scheduling: a thread inside a call keeps running (weak fairness of
\* the steps that need no lock), and a thread blocked in lock() is not
\* passed over forever when the mutex is free again and again (strong
\* fairness of the two lock() steps).  Threads are free to stop calling.
CallersSpec ==
    /\ InitWriters
    /\ [][NextCallers]_vars
    /\ \A t \in Threads :
        /\ WF_vars(set_context_insert(t))
        /\ WF_vars(when_context_get(t))
        /\ WF_vars(when_context_build(t))
        /\ SF_vars(set_context_lock(t))
        /\ SF_vars(when_context_lock(t))

\* ----------------------------------------------------- poisoned lock
\* A process in which the store's mutex is poisoned: BEHOLD has been
\* initialised and a thread has panicked while it held the guard, leaving
\* the map as it was (empty, or with "do-it" set).  The library's own
\* operations never get there (see C20); this is the case the Err branches
\* of set_context and when_context are written for.
InitPoisoned ==
    /\ \E m \in {BTreeMap_new, BTreeMap_insert(BTreeMap_new, "do-it", TRUE)} :
        /\ contexts = << [data |-> m, owner |-> NoThread, poisoned |-> TRUE] >>
        /\ written = [k \in Keys |-> BTreeMap_get(m, k)]
    /\ BEHOLD = Some(BEHOLD_init(1))
    /\ insts = {BEHOLD[1]}
    /\ out = << >>
    /\ pc = [t \in Threads |-> "idle"]
    /\ frame = [t \in Threads |-> Idle]

\* The steps that can follow: every call, the lock() of set_context and of
\* when_context, and the printing of show.
NextPoisoned ==
    \E t \in Threads :
        \/ new(t)
        \/ \E self \in insts, key \in Keys, value \in BOOLEAN :
                set_context(t, self, key, value)
        \/ set_context_lock(t)
        \/ \E self \in insts, tg \in Tags : tag(t, self, tg)
        \/ \E self \in insts, speak_up \in BOOLEAN : when(t, self, speak_up)
        \/ \E self \in insts, key \in Keys : when_context(t, self, key)
        \/ when_context_lock(t)
        \/ \E self \in insts, msg \in Msgs : show(t, self, msg)
        \/ show_print(t)

PoisonedSpec == InitPoisoned /\ [][NextPoisoned]_vars

\* ======================================================================
\* Properties
\* ======================================================================

\* Thread t takes the step of when_context that looks the key up.
LookupStep(t) == pc[t] = "wc_get" /\ pc'[t] = "wc_build"

\* Thread t takes the step of show that prints and returns.
PrintStep(t) == pc[t] = "show" /\ pc'[t] = "idle"

\* The instance the when_context call of thread t is about to return.
Derived(t) == when_context_result(frame[t].self, frame[t].speak_up)

\* C1: once a set_context(k, v) has returned, a when_context(k) lookup,
\* from whichever handle (the default included), computes speak_up = v for
\* the latest such v, and the instance it returns shows a message exactly
\* when v is true.
C1_SetThenWhenContext ==
    [][\A t \in Threads :
        (LookupStep(t) /\ written[frame[t].key] # None) =>
            LET v == written[frame[t].key][1]
                b == when_context_result(frame'[t].self, frame'[t].speak_up)
            IN /\ b.speak_up = v
               /\ \A msg \in Msgs :
                    Len(show_lines(b, msg)) = IF v THEN 1 ELSE 0]_vars

\* C1 witness: after set_context("do-it", true) returned, a when_context
\* ("do-it") on the default instance is returning an active instance.
C1_Witness ==
    \E t \in Threads :
        /\ pc[t] = "wc_build"
        /\ frame[t].key = "do-it"
        /\ frame[t].self = BEHOLD[1]
        /\ written["do-it"] = Some(TRUE)
        /\ Derived(t).speak_up
        /\ show_lines(Derived(t), "Hello world!") = << "Hello world!" >>

\* C2: a when_context(k) lookup made while no set_context(k, _) has returned
\* does not fail and computes speak_up = false, so the instance it returns
\* shows nothing.
C2_UnsetKeyInactive ==
    [][\A t \in Threads :
        (pc[t] = "wc_get" /\ pc'[t] # "wc_get" /\ written[frame[t].key] = None) =>
            /\ pc'[t] = "wc_build"
            /\ frame'[t].speak_up = FALSE
            /\ \A msg \in Msgs :
                show_lines(when_context_result(frame'[t].self, FALSE), msg) = << >>]_vars

\* C2 witness: a when_context on a key never set is returning an inactive
\* instance while another key is set to true.
C2_Witness ==
    \E t \in Threads :
        /\ pc[t] = "wc_build"
        /\ frame[t].key = "other"
        /\ written["other"] = None
        /\ written["do-it"] = Some(TRUE)
        /\ ~ Derived(t).speak_up

\* C3: in the concurrent-writers scenario every thread's set_context call
\* returns, and every lookup made once all have returned reads, for each
\* key, the value its one writer passed: the store holds exactly the keys
\* written, each with its writer's value.
C3_ConcurrentWriters ==
    /\ \A t \in Threads :
        (pc[t] = "set_lock") ~> (pc[t] = "idle" /\ written[KeyOf(t)] # None)
    /\ [](\A t \in Threads :
            (pc[t] = "wc_build" /\ AllWritten) =>
                frame[t].speak_up = written[frame[t].key][1])
    /\ [](AllWritten =>
            \A k \in Keys : BTreeMap_get(contexts[1].data, k) = written[k])
    /\ [][\A t \in Threads :
            (pc[t] = "set_insert" /\ pc'[t] = "idle") =>
                \A k \in Keys \ {frame[t].key} :
                    BTreeMap_get(contexts'[1].data, k) = BTreeMap_get(contexts[1].data, k)]_vars

\* C3 witness: both writers have returned, having written different values
\* to their keys, and a reader has looked up each of the two keys.
C3_Witness ==
    /\ written["do-it"] = Some(TRUE)
    /\ written["other"] = Some(FALSE)
    /\ pc["t1"] = "wc_build" /\ frame["t1"].key = "other" /\ ~ frame["t1"].speak_up
    /\ pc["t2"] = "wc_build" /\ frame["t2"].key = "do-it" /\ frame["t2"].speak_up

\* C4: a tag or when step removes or changes no instance that existed
\* before it (the receiver included) and touches nothing but the set of
\* instances, so the show behaviour of every existing instance is as before.
C4_DerivationKeepsReceiver ==
    [][\A t \in Threads : \A self \in insts :
        ((\E tg \in Tags : tag(t, self, tg))
            \/ (\E speak_up \in BOOLEAN : when(t, self, speak_up))) =>
            /\ insts \subseteq insts'
            /\ self \in insts'
            /\ UNCHANGED <<BEHOLD, contexts, out, pc, frame, written>>]_vars

\* C4 witness: the default instance is still there, untagged and active,
\* beside instances derived from it by tag and by when(false).
C4_Witness ==
    /\ BEHOLD # None
    /\ BEHOLD[1] \in insts
    /\ tag_result(BEHOLD[1], "apples") \in insts
    /\ when_result(BEHOLD[1], FALSE) \in insts
    /\ show_lines(BEHOLD[1], "Hello world!") = << "Hello world!" >>

\* C5: the printing step of show on an active instance appends exactly one
\* line to the output: the message when there is no tag, and the message,
\* a comma, a space and the tag when there is one.
C5_ShowActiveLine ==
    [][\A t \in Threads :
        (PrintStep(t) /\ frame[t].self.speak_up) =>
            LET self == frame[t].self
                msg == frame[t].msg
            IN /\ Len(out') = Len(out) + 1
               /\ SubSeq(out', 1, Len(out)) = out
               /\ self.tag = None => out'[Len(out')] = msg
               /\ self.tag # None => out'[Len(out')] = msg \o ", " \o self.tag[1]
               /\ (msg = "Hello world!" /\ self.tag = None)
                    => out'[Len(out')] = "Hello world!"
               /\ (msg = "Hello world!" /\ self.tag = Some("apples"))
                    => out'[Len(out')] = "Hello world!, apples"]_vars

\* C5 witness: an active instance tagged "apples" has shown "Hello world!".
C5_Witness ==
    /\ BEHOLD # None
    /\ tag_result(BEHOLD[1], "apples") \in insts
    /\ out = << "Hello world!, apples" >>
    /\ \A t \in Threads : pc[t] = "idle"

\* C6: the printing step of show on an inactive instance, tagged or not,
\* prints nothing and changes nothing but the caller's return to idle.
C6_ShowInactiveSilent ==
    [][\A t \in Threads :
        (PrintStep(t) /\ ~ frame[t].self.speak_up) =>
            /\ out' = out
            /\ UNCHANGED <<BEHOLD, contexts, insts, written>>
            /\ \A u \in Threads \ {t} : pc'[u] = pc[u] /\ frame'[u] = frame[u]]_vars

\* C6 witness: both threads are in show on inactive instances, one tagged
\* and one not, and nothing has been printed.
C6_Witness ==
    /\ \A t \in Threads : pc[t] = "show" /\ ~ frame[t].self.speak_up
    /\ \E t \in Threads : frame[t].self.tag = None
    /\ \E t \in Threads : frame[t].self.tag = Some("apples")
    /\ out = << >>

\* C8: the default instance is active and untagged for as long as it
\* exists, whatever has been called since, and every new step hands out
\* exactly that instance.
C8_DefaultActiveUntagged ==
    /\ [](BEHOLD # None => (BEHOLD[1].speak_up /\ BEHOLD[1].tag = None))
    /\ [][\A t \in Threads :
            new(t) => /\ insts' = insts \cup {BEHOLD'[1]}
                      /\ BEHOLD'[1].speak_up
                      /\ BEHOLD'[1].tag = None
                      /\ BEHOLD # None => BEHOLD' = BEHOLD]_vars

\* C8 witness: the default instance is held after set_context, tag and
\* when(false) calls have all taken effect.
C8_Witness ==
    /\ BEHOLD # None
    /\ Behold(BEHOLD[1].context, TRUE, None) \in insts
    /\ Behold(BEHOLD[1].context, FALSE, Some("apples")) \in insts
    /\ written["do-it"] = Some(FALSE)
    /\ written["other"] = Some(TRUE)

\* C9: show("Hello world!") on when(true) of the default instance prints
\* `Hello world!, apples`, as the doc example of when has it.
C9_WhenDocExample ==
    [][\A t \in Threads :
        (PrintStep(t) /\ BEHOLD # None
            /\ frame[t].self = when_result(BEHOLD[1], TRUE)
            /\ frame[t].msg = "Hello world!") =>
            out' = Append(out, "Hello world!, apples")]_vars

\* C10: there is at most one context allocation, the one BEHOLD made, and
\* every instance held, every receiver of a call in progress and BEHOLD
\* itself refer to it.
C10_OneSharedContext ==
    /\ Len(contexts) <= 1
    /\ (BEHOLD = None) <=> (contexts = << >>)
    /\ \A b \in insts : b.context = 1 /\ BEHOLD # None /\ b.context = BEHOLD[1].context
    /\ \A t \in Threads :
        /\ pc[t] \in {"set_lock", "set_insert"} => frame[t].context = 1
        /\ pc[t] \in {"wc_lock", "wc_get", "wc_build", "show"}
                => frame[t].self.context = 1

\* C10 witness: four different instances, derived by tag, when and
\* when_context, are held while the context maps both keys.
C10_Witness ==
    /\ Cardinality(insts) = 4
    /\ DOMAIN contexts[1].data = Keys
    /\ \E t \in Threads : pc[t] = "wc_build" /\ frame[t].self.tag # None

\* The threads inside a critical section: between lock() returning Ok and
\* the guard being dropped.
Holders == {t \in Threads : pc[t] \in {"set_insert", "wc_get"}}

\* C11: a thread owns a mutex exactly while it is at its one insert or its
\* one lookup; a thread that is printing in show, building the instance
\* when_context returns, waiting, or idle owns none; and at most one thread
\* is inside a critical section.
C11_LockOnlyAroundMapAccess ==
    /\ Cardinality(Holders) <= 1
    /\ \A c \in DOMAIN contexts :
        /\ contexts[c].owner \in Threads => contexts[c].owner \in Holders
        /\ contexts[c].owner \in Threads \cup {NoThread}
    /\ \A t \in Threads :
        /\ pc[t] \in {"show", "wc_build", "idle", "set_lock", "wc_lock"}
            => \A c \in DOMAIN contexts : contexts[c].owner # t
        /\ pc[t] = "set_insert" => contexts[frame[t].context].owner = t
        /\ pc[t] = "wc_get" => contexts[frame[t].self.context].owner = t

\* C11 witness: one thread is printing in show while the other is inside
\* its critical section, and the lock is owned by the latter.
C11_Witness ==
    /\ pc["t1"] = "show" /\ frame["t1"].self.speak_up
    /\ pc["t2"] = "set_insert"
    /\ contexts[1].owner = "t2"

\* C12: whatever the interleaving, the lookup step of when_context(k) is
\* taken by the one thread inside a critical section and computes the
\* value of the last insert for k before it in lock order, or false when
\* there is none; the map it reads holds, for every key, exactly the last
\* value inserted.
C12_LookupLinearizable ==
    /\ [](\A t \in Threads : pc[t] = "wc_get" =>
            /\ Holders = {t}
            /\ \A k \in Keys :
                BTreeMap_get(contexts[frame[t].self.context].data, k) = written[k])
    /\ [][\A t \in Threads : LookupStep(t) =>
            frame'[t].speak_up =
                (IF written[frame[t].key] = None
                 THEN FALSE ELSE written[frame[t].key][1])]_vars

\* C12 witness: a lookup of "do-it" has read true, the value last inserted,
\* while the other thread's set_context("do-it", false) is still waiting to
\* insert and "other" holds false.
C12_Witness ==
    /\ pc["t1"] = "wc_build" /\ frame["t1"].key = "do-it" /\ frame["t1"].speak_up
    /\ pc["t2"] = "set_lock" /\ frame["t2"].key = "do-it" /\ ~ frame["t2"].value
    /\ written["do-it"] = Some(TRUE)
    /\ written["other"] = Some(FALSE)

\* C13: no step removes a key from a map or frees a map: every allocation
\* stays, the keys of each map before a step are keys of it after, and a
\* map is empty in the step that allocates it.
C13_StoreNeverShrinks ==
    [][/\ DOMAIN contexts \subseteq DOMAIN contexts'
       /\ \A c \in DOMAIN contexts :
            DOMAIN contexts[c].data \subseteq DOMAIN contexts'[c].data
       /\ \A c \in (DOMAIN contexts') \ (DOMAIN contexts) :
            DOMAIN contexts'[c].data = {}]_vars

\* C13 witness: both keys are present in the map, each having been written
\* with false; a set_context(k, false) keeps the key in the map.
C13_Witness ==
    /\ BEHOLD # None
    /\ DOMAIN contexts[1].data = Keys
    /\ contexts[1].data["do-it"] = FALSE
    /\ contexts[1].data["other"] = FALSE
    /\ \E b \in insts : b.speak_up /\ b.tag # None

\* The mapping of the process-wide store: empty until BEHOLD allocates it.
StoreData(heap) == IF heap = << >> THEN BTreeMap_new ELSE heap[1].data

\* Thread t takes the step of set_context that inserts and returns.
InsertStep(t) == pc[t] = "set_insert" /\ pc'[t] = "idle"

\* Thread t takes any step of a set_context call: the call, lock(), the insert.
SetContextStep(t) ==
    \/ pc[t] = "idle" /\ pc'[t] = "set_lock"
    \/ pc[t] = "set_lock" /\ pc'[t] # "set_lock"
    \/ InsertStep(t)

\* C14: the mapping changes only in the insert step of a set_context; that
\* step sets the entry of its key to its value and leaves every other
\* key's presence and value as they were; and no step of a set_context
\* call changes an instance, BEHOLD or the output.
C14_OnlySetContextWrites ==
    [][/\ StoreData(contexts') # StoreData(contexts) => \E t \in Threads : InsertStep(t)
       /\ \A t \in Threads : InsertStep(t) =>
            /\ BTreeMap_get(StoreData(contexts'), frame[t].key) = Some(frame[t].value)
            /\ \A k \in Keys \ {frame[t].key} :
                BTreeMap_get(StoreData(contexts'), k) = BTreeMap_get(StoreData(contexts), k)
       /\ \A t \in Threads : SetContextStep(t) =>
            /\ insts' = insts
            /\ BEHOLD' = BEHOLD
            /\ out' = out]_vars

\* C14 witness: after a set_context("do-it", true), derivations and a show,
\* a when_context("other") has looked up the absent key and the map still
\* holds "do-it" alone.
C14_Witness ==
    /\ BEHOLD # None
    /\ StoreData(contexts) = BTreeMap_insert(BTreeMap_new, "do-it", TRUE)
    /\ \E t \in Threads : pc[t] = "wc_build" /\ frame[t].key = "other"
    /\ Cardinality(insts) >= 3
    /\ Len(out) = 1

\* Thread t takes the step of when_context that builds the result.
BuildStep(t) == pc[t] = "wc_build" /\ pc'[t] = "idle"

\* C15: tag(tg) adds the instance with the receiver's context and speak_up
\* and the tag tg alone, whatever tag the receiver had; when(b) adds the one
\* with the receiver's context and tag and speak_up = b; when_context(k)
\* adds the one with the receiver's context and tag and speak_up = the
\* value it looked up.
C15_DerivationChangesOneField ==
    [][\A t \in Threads :
        /\ \A self \in insts : \A tg \in Tags :
            tag(t, self, tg) =>
                insts' = insts \cup
                    {[context |-> self.context, speak_up |-> self.speak_up,
                      tag |-> << tg >>]}
        /\ \A self \in insts : \A b \in BOOLEAN :
            when(t, self, b) =>
                insts' = insts \cup
                    {[context |-> self.context, speak_up |-> b, tag |-> self.tag]}
        /\ LookupStep(t) =>
            /\ frame'[t].self = frame[t].self
            /\ frame'[t].speak_up =
                unwrap_or_default(BTreeMap_get(StoreData(contexts), frame[t].key))
        /\ BuildStep(t) =>
            insts' = insts \cup
                {[context |-> frame[t].self.context, speak_up |-> frame[t].speak_up,
                  tag |-> frame[t].self.tag]}]_vars

\* C15 witness: tagged instances of both activities are held, derived by
\* when from a tagged receiver, and a when_context on a tagged inactive
\* receiver is returning an active instance.
C15_Witness ==
    /\ BEHOLD # None
    /\ Behold(1, TRUE, Some("apples")) \in insts
    /\ Behold(1, FALSE, Some("apples")) \in insts
    /\ \E t \in Threads :
        /\ pc[t] = "wc_build"
        /\ frame[t].self = Behold(1, FALSE, Some("apples"))
        /\ frame[t].speak_up

\* C16: with the store's mutex poisoned, the lock() of set_context and of
\* when_context ends in a panic: no thread gets to the insert, to the
\* lookup or to building a result, the map stays as it was, no instance is
\* added by the failing call, and a panicked thread does nothing more.
C16_PoisonedLockPanics ==
    /\ [](\A t \in Threads :
            contexts[1].poisoned => pc[t] \notin {"set_insert", "wc_get", "wc_build"})
    /\ [][\A t \in Threads :
            (contexts[1].poisoned /\ pc[t] \in {"set_lock", "wc_lock"}
                /\ pc'[t] # pc[t]) =>
                /\ pc'[t] = "panicked"
                /\ contexts' = contexts
                /\ insts' = insts
                /\ written' = written]_vars
    /\ [][/\ StoreData(contexts') = StoreData(contexts)
           /\ \A t \in Threads : pc[t] = "panicked" => pc'[t] = "panicked"]_vars

\* C16 witness: a set_context and a when_context on "do-it" have both
\* panicked on the poisoned lock; the map still holds "do-it" -> true and
\* no inactive or derived instance has appeared.
C16_Witness ==
    /\ contexts[1].poisoned
    /\ pc["t1"] = "panicked" /\ frame["t1"].op = "set_context"
    /\ frame["t1"].key = "do-it" /\ ~ frame["t1"].value
    /\ pc["t2"] = "panicked" /\ frame["t2"].op = "when_context"
    /\ frame["t2"].key = "do-it"
    /\ StoreData(contexts) = BTreeMap_insert(BTreeMap_new, "do-it", TRUE)
    /\ insts = {BEHOLD[1]}

\* The threads blocked in, or about to call, lock().
Waiters == {t \in Threads : pc[t] \in {"set_lock", "wc_lock"}}

\* The owner of the process-wide store's mutex: none until BEHOLD
\* allocates it.
StoreOwner == IF contexts = << >> THEN NoThread ELSE contexts[1].owner

C18_SpeakUpIsSnapshot ==
    [][/\ \A u \in Threads : InsertStep(u) =>
            /\ insts \subseteq insts'
            /\ \A t \in Threads \ {u} :
                pc[t] = "wc_build" =>
                    /\ pc'[t] = "wc_build"
                    /\ frame'[t].speak_up = frame[t].speak_up
       /\ \A t \in Threads : BuildStep(t) =>
            \E b \in insts' :
                /\ b.speak_up = frame[t].speak_up
                /\ b.tag = frame[t].self.tag
                /\ insts' = insts \cup {b}
       /\ \A t \in Threads : PrintStep(t) =>
            (Len(out') = Len(out) + 1) = frame[t].self.speak_up]_vars

\* C18 witness: a when_context("do-it") read true and is about to return
\* an active instance although a set_context("do-it", false) has returned
\* since; the other thread is in show on an active instance that was
\* derived earlier.
C18_Witness ==
    /\ pc["t1"] = "wc_build" /\ frame["t1"].key = "do-it" /\ frame["t1"].speak_up
    /\ written["do-it"] = Some(FALSE)
    /\ ~ when_context_lookup(StoreData(contexts), "do-it")
    /\ pc["t2"] = "show" /\ frame["t2"].self.speak_up

\* C19: the last when or when_context of a chain decides speak_up alone:
\* when(b) yields speak_up = b and when_context(k) yields the value stored
\* for k (false when absent) also on an inactive receiver, tag passes the
\* receiver's speak_up on, and so when(false).when_context(k) is active
\* when k is true and when_context(k).when(true) is active whatever k is.
C19_LastConditionWins ==
    [][\A t \in Threads :
        /\ \A self \in insts : \A b \in BOOLEAN :
            when(t, self, b) =>
                insts' = insts \cup {[self EXCEPT !.speak_up = b]}
        /\ \A self \in insts : \A tg \in Tags :
            tag(t, self, tg) =>
                \A r \in insts' \ insts : r.speak_up = self.speak_up
        /\ LookupStep(t) =>
            frame'[t].speak_up = (written[frame[t].key] = Some(TRUE))
        /\ BuildStep(t) =>
            insts' = insts \cup
                {[frame[t].self EXCEPT !.speak_up = frame[t].speak_up]}
        /\ (BuildStep(t) /\ ~ frame[t].self.speak_up /\ frame[t].speak_up) =>
            \E r \in insts' : r.speak_up /\ r.tag = frame[t].self.tag]_vars

\* C19 witness: a when_context on the inactive, untagged instance that
\* when(false) gave is returning an active instance, the key being true,
\* while the other key is unset.
C19_Witness ==
    /\ BEHOLD # None
    /\ when_result(BEHOLD[1], FALSE) \in insts
    /\ written["other"] = None
    /\ \E t \in Threads :
        /\ pc[t] = "wc_build"
        /\ frame[t].self = when_result(BEHOLD[1], FALSE)
        /\ frame[t].key = "do-it"
        /\ frame[t].speak_up
        /\ written["do-it"] = Some(TRUE)

\* C20: in every state the library's operations reach, no mutex is
\* poisoned, no thread has panicked, a thread at lock() does not own the
\* mutex it asks for, and a thread inside a critical section owns it and is
\* at a step that cannot fail.
C20_NeverPoisoned ==
    /\ \A c \in DOMAIN contexts : ~ contexts[c].poisoned
    /\ \A t \in Threads :
        /\ pc[t] # "panicked"
        /\ pc[t] \in {"idle", "set_lock", "set_insert", "wc_lock", "wc_get",
                       "wc_build", "show"}
        /\ pc[t] = "set_lock" => contexts[frame[t].context].owner # t
        /\ pc[t] = "wc_lock" => contexts[frame[t].self.context].owner # t
        /\ pc[t] \in {"set_insert", "wc_get"} => StoreOwner = t

\* C20 witness: a set_context is overwriting a key that is already set,
\* inside its critical section, while the other thread is blocked in the
\* lock() of a set_context, after a show has printed.
C20_Witness ==
    /\ pc["t1"] = "set_insert"
    /\ frame["t1"].key \in DOMAIN StoreData(contexts)
    /\ StoreData(contexts)[frame["t1"].key] # frame["t1"].value
    /\ pc["t2"] = "set_lock"
    /\ Len(out) = 1
    /\ Cardinality(insts) = 4

====
